---- MODULE Spec2Model ----
(***************************************************************************)
(* Model of package visa (src/visa.go): the VISA resource-string parser    *)
(* parseVisaResource, the enumerator ListResources and the resolver        *)
(* OpenResource.  Go strings are sequences of one-character strings.       *)
(***************************************************************************)
EXTENDS Integers, Sequences, FiniteSets, TLC

VARIABLES
    pc,              \* position of the running call
    resourceString,  \* argument of parseVisaResource / addr of OpenResource
    visa,            \* *VisaResource returned by parseVisaResource (v in OpenResource)
    err,             \* error returned by parseVisaResource
    termchar,        \* termchar argument of OpenResource
    calls,           \* collaborator calls made by OpenResource, in order
    dev,             \* device returned by usbtmc.NewDevice to OpenResource
    ret,             \* (handle, error) returned by OpenResource
    devs,            \* devices ctx.OpenDevices returned to ListResources
    idx,             \* position of the per-device loop of ListResources
    result,          \* the result slice of ListResources
    open,            \* handles currently held: context, devices, configurations
    released         \* handles released so far, in release order

vars == <<pc, resourceString, visa, err, termchar, calls, dev, ret,
          devs, idx, result, open, released>>

nil == "nil"

----------------------------------------------------------------------------
(* Characters and strings                                                   *)

LowerLetters ==
    <<"a","b","c","d","e","f","g","h","i","j","k","l","m",
      "n","o","p","q","r","s","t","u","v","w","x","y","z">>

UpperLetters ==
    <<"A","B","C","D","E","F","G","H","I","J","K","L","M",
      "N","O","P","Q","R","S","T","U","V","W","X","Y","Z">>

DigitChars == <<"0","1","2","3","4","5","6","7","8","9">>

Range(f) == { f[i] : i \in DOMAIN f }

IndexOf(c, tab) == CHOOSE i \in DOMAIN tab : tab[i] = c

IsLower(c) == c \in Range(LowerLetters)
IsUpper(c) == c \in Range(UpperLetters)
IsLetter(c) == IsLower(c) \/ IsUpper(c)
IsDigit(c) == c \in Range(DigitChars)
IsSpace(c) == c \in {" ", "\t", "\n", "\r", "\f"}
IsToken(c) == ~IsSpace(c) /\ c # ":"

lower(c) == IF IsUpper(c) THEN LowerLetters[IndexOf(c, UpperLetters)] ELSE c

ToUpperChar(c) == IF IsLower(c) THEN UpperLetters[IndexOf(c, LowerLetters)] ELSE c

ToUpper(s) == [i \in 1..Len(s) |-> ToUpperChar(s[i])]

Sub(s, from, to) == [i \in 1..(to - from) |-> s[from + i - 1]]

----------------------------------------------------------------------------
(* strconv.ParseUint(s, base, bitSize) as called at lines 65, 73, 81, 91     *)

ErrSyntax == "strconv: invalid syntax"
ErrRange == "strconv: value out of range"

DigitVal(c) ==
    IF IsDigit(c) THEN IndexOf(c, DigitChars) - 1
    ELSE IF IsLetter(c) THEN IndexOf(lower(c), LowerLetters) + 9
    ELSE -1

\* underscoreOK: underscores must separate digits (or a base prefix and a digit)
RECURSIVE UnderscoreScan(_, _, _, _)
UnderscoreScan(s, j, last, hex) ==
    IF j > Len(s) THEN last # "_"
    ELSE IF IsDigit(s[j]) \/ (hex /\ IsLetter(s[j]) /\ DigitVal(s[j]) <= 15)
         THEN UnderscoreScan(s, j + 1, "0", hex)
    ELSE IF s[j] = "_"
         THEN IF last # "0" THEN FALSE ELSE UnderscoreScan(s, j + 1, "_", hex)
    ELSE IF last = "_" THEN FALSE
    ELSE UnderscoreScan(s, j + 1, "!", hex)

underscoreOK(s0) ==
    LET s == IF Len(s0) >= 1 /\ s0[1] \in {"-", "+"} THEN Tail(s0) ELSE s0
        pre == Len(s) >= 2 /\ s[1] = "0" /\ lower(s[2]) \in {"b", "o", "x"}
    IN IF pre THEN UnderscoreScan(Sub(s, 3, Len(s) + 1), 1, "0", lower(s[2]) = "x")
       ELSE UnderscoreScan(s, 1, "^", FALSE)

RECURSIVE ParseDigits(_, _, _, _, _, _)
ParseDigits(s, j, n, base, maxVal, base0) ==
    IF j > Len(s) THEN [val |-> n, err |-> nil]
    ELSE IF s[j] = "_" /\ base0 THEN ParseDigits(s, j + 1, n, base, maxVal, base0)
    ELSE IF DigitVal(s[j]) < 0 \/ DigitVal(s[j]) >= base THEN [val |-> 0, err |-> ErrSyntax]
    ELSE IF n * base + DigitVal(s[j]) > maxVal THEN [val |-> maxVal, err |-> ErrRange]
    ELSE ParseDigits(s, j + 1, n * base + DigitVal(s[j]), base, maxVal, base0)

ParseUint(s, base, bitSize) ==
    IF s = <<>> THEN [val |-> 0, err |-> ErrSyntax]
    ELSE
      LET base0 == base = 0
          pre == base0 /\ s[1] = "0"
          pfx == pre /\ Len(s) >= 3 /\ lower(s[2]) \in {"b", "o", "x"}
          b == IF ~base0 THEN base
               ELSE IF ~pre THEN 10
               ELSE IF pfx /\ lower(s[2]) = "b" THEN 2
               ELSE IF pfx /\ lower(s[2]) = "x" THEN 16
               ELSE 8
          body == IF pfx THEN Sub(s, 3, Len(s) + 1)
                  ELSE IF pre THEN Tail(s)
                  ELSE s
          r == ParseDigits(body, 1, 0, b, 2^bitSize - 1, base0)
      IN IF r.err # nil THEN r
         ELSE IF base0 /\ "_" \in Range(s) /\ ~underscoreOK(s)
              THEN [val |-> 0, err |-> ErrSyntax]
         ELSE r

----------------------------------------------------------------------------
(* The regular expression of lines 44-49, matched by re.FindStringSubmatch  *)

USB == <<"U","S","B">>
INSTR == <<"I","N","S","T","R">>
Sep == <<":",":">>

\* greedy run of a character class starting at i: position after the run
SpanLetters(s, i) ==
    CHOOSE j \in i..(Len(s) + 1) :
        (j = Len(s) + 1 \/ ~IsLetter(s[j])) /\ \A k \in i..(j - 1) : IsLetter(s[k])

SpanDigits(s, i) ==
    CHOOSE j \in i..(Len(s) + 1) :
        (j = Len(s) + 1 \/ ~IsDigit(s[j])) /\ \A k \in i..(j - 1) : IsDigit(s[k])

SpanToken(s, i) ==
    CHOOSE j \in i..(Len(s) + 1) :
        (j = Len(s) + 1 \/ ~IsToken(s[j])) /\ \A k \in i..(j - 1) : IsToken(s[k])

HasSep(s, p) == p + 1 <= Len(s) /\ s[p] = ":" /\ s[p + 1] = ":"

NoMatch ==
    [matched |-> FALSE, interfaceType |-> <<>>, boardIndex |-> <<>>,
     manufacturerID |-> <<>>, modelCode |-> <<>>, serialNumber |-> <<>>,
     interfaceIndex |-> <<>>, resourceClass |-> <<>>]

\* `(::(?P<interfaceIndex>\d*))::(?P<resourceClass>[^\s:]+)$` from position p
MatchIndexAndClass(s, p) ==
    IF ~HasSep(s, p) THEN NoMatch
    ELSE LET q == SpanDigits(s, p + 2)
         IN IF ~HasSep(s, q) THEN NoMatch
            ELSE LET r == SpanToken(s, q + 2)
                 IN IF r = q + 2 \/ r # Len(s) + 1 THEN NoMatch
                    ELSE [NoMatch EXCEPT !.matched = TRUE,
                                         !.interfaceIndex = Sub(s, p + 2, q),
                                         !.resourceClass = Sub(s, q + 2, r)]

\* a scanner that commits to the serial group once its token matched
MatchSerialCommitted(s, p) ==
    LET q == IF HasSep(s, p) THEN SpanToken(s, p + 2) ELSE p
        taken == HasSep(s, p) /\ q > p + 2
    IN IF taken
       THEN LET t == MatchIndexAndClass(s, q)
            IN IF t.matched THEN [t EXCEPT !.serialNumber = Sub(s, p + 2, q)] ELSE NoMatch
       ELSE MatchIndexAndClass(s, p)

\* `(::(?P<serialNumber>[^\s:]+))?` from position p, then the rest: the group
\* is tried first and given up when the rest does not match after it
MatchSerialOpt(s, p) ==
    LET q == IF HasSep(s, p) THEN SpanToken(s, p + 2) ELSE p
        taken == HasSep(s, p) /\ q > p + 2
        withSerial == IF taken THEN MatchIndexAndClass(s, q) ELSE NoMatch
    IN IF withSerial.matched
       THEN [withSerial EXCEPT !.serialNumber = Sub(s, p + 2, q)]
       ELSE MatchIndexAndClass(s, p)

FindStringSubmatch(s) ==
    LET p1 == SpanLetters(s, 1)
        p2 == SpanDigits(s, p1)
        p3 == SpanToken(s, p2 + 2)
        p4 == SpanToken(s, p3 + 2)
    IN IF p1 = 1 \/ ~HasSep(s, p2) THEN NoMatch
       ELSE IF p3 = p2 + 2 \/ ~HasSep(s, p3) THEN NoMatch
       ELSE IF p4 = p3 + 2 THEN NoMatch
       ELSE LET t == MatchSerialOpt(s, p4)
            IN IF ~t.matched THEN NoMatch
               ELSE [t EXCEPT !.interfaceType = Sub(s, 1, p1),
                              !.boardIndex = Sub(s, p1, p2),
                              !.manufacturerID = Sub(s, p2 + 2, p3),
                              !.modelCode = Sub(s, p3 + 2, p4)]

\* matchMap[name]: the capture, "" for a group that took no part or when
\* nothing matched
matchMap(s) == FindStringSubmatch(s)

----------------------------------------------------------------------------
(* parseVisaResource, lines 33-105                                          *)

ErrInterfaceType == "visa: interface type was not usb"
ErrBoardIndex == "visa: boardIndex error"
ErrManufacturerID == "visa: manufacturerID error"
ErrModelCode == "visa: modelCode error"
ErrInterfaceIndex == "visa: interfaceIndex error"
ErrResourceClass == "visa: resource class was not instr"

NewVisaResource(s) ==
    [resourceString |-> s, interfaceType |-> <<>>, boardIndex |-> -1,
     manufacturerID |-> -1, modelCode |-> -1, serialNumber |-> <<>>,
     interfaceIndex |-> -1, resourceClass |-> <<>>]

IsInterfaceTypeUSB(mm) == ToUpper(mm.interfaceType) = USB

ParseBoardIndex(tok) == ParseUint(tok, 0, 16)

\* the conversion with a bit size wider than the 16 bits of a USB ID
ParseManufacturerIDWide(tok) == ParseUint(tok, 0, 20)

ParseManufacturerID(tok) == ParseUint(tok, 0, 16)

ParseModelCode(tok) == ParseUint(tok, 0, 16)

ParseInterfaceIndex(tok) == ParseUint(tok, 0, 10)

\* the comparison of line 98 with its sense inverted
IsResourceClassInverted(mm) == ToUpper(mm.resourceClass) # INSTR

IsResourceClassINSTR(mm) == ToUpper(mm.resourceClass) = INSTR

\* lines 98-103
CheckResourceClass(v, mm) ==
    IF ~IsResourceClassINSTR(mm) THEN [visa |-> v, err |-> ErrResourceClass]
    ELSE [visa |-> [v EXCEPT !.resourceClass = INSTR], err |-> nil]

\* lines 90-96
SetInterfaceIndex(v, mm) ==
    LET present == mm.interfaceIndex # <<>>
        r == ParseInterfaceIndex(mm.interfaceIndex)
    IN IF present /\ r.err # nil THEN [visa |-> v, err |-> ErrInterfaceIndex]
       ELSE CheckResourceClass(
                IF present THEN [v EXCEPT !.interfaceIndex = r.val] ELSE v, mm)

\* line 88
SetSerialNumber(v, mm) ==
    SetInterfaceIndex([v EXCEPT !.serialNumber = mm.serialNumber], mm)

\* lines 80-86
SetModelCode(v, mm) ==
    LET present == mm.modelCode # <<>>
        r == ParseModelCode(mm.modelCode)
    IN IF present /\ r.err # nil THEN [visa |-> v, err |-> ErrModelCode]
       ELSE SetSerialNumber(IF present THEN [v EXCEPT !.modelCode = r.val] ELSE v, mm)

\* lines 72-78
SetManufacturerID(v, mm) ==
    LET present == mm.manufacturerID # <<>>
        r == ParseManufacturerID(mm.manufacturerID)
    IN IF present /\ r.err # nil THEN [visa |-> v, err |-> ErrManufacturerID]
       ELSE SetModelCode(IF present THEN [v EXCEPT !.manufacturerID = r.val] ELSE v, mm)

\* lines 64-70
SetBoardIndex(v, mm) ==
    LET present == mm.boardIndex # <<>>
        r == ParseBoardIndex(mm.boardIndex)
    IN IF present /\ r.err # nil THEN [visa |-> v, err |-> ErrBoardIndex]
       ELSE SetManufacturerID(IF present THEN [v EXCEPT !.boardIndex = r.val] ELSE v, mm)

\* lines 59-62
CheckInterfaceType(v, mm) ==
    IF ~IsInterfaceTypeUSB(mm) THEN [visa |-> v, err |-> ErrInterfaceType]
    ELSE SetBoardIndex([v EXCEPT !.interfaceType = USB], mm)

\* the pointer and the error parseVisaResource returns
parseVisaResource(s) == CheckInterfaceType(NewVisaResource(s), matchMap(s))

----------------------------------------------------------------------------
(* Resource strings handed to parseVisaResource and OpenResource            *)

NilPtr == [isNil |-> TRUE]

InterfaceTypeTokens == { USB, <<"u","s","b">>, <<"G","P","I","B">> }

BoardIndexTokens == { <<>>, <<"0">>, <<"0","8">> }

ManufacturerIDTokens ==
    { <<"0","x","1","2","3","4">>, <<"4","6","6","0">>, <<"0","x","F","F","F","F">>,
      <<"0","x","1","0","0","0","0">>, <<"z","z">> }

ModelCodeTokens ==
    { <<"0","x","5","6","7","8">>, <<"6","5","5","3","5">>, <<"6","5","5","3","6">> }

\* the `::<serialNumber>` segment: left out, or present with the given text
SerialSegments ==
    { <<>> } \cup
    { Sep \o sn : sn \in { <<"A","1","2","3","4","5">>, <<"1","2">>, <<>>,
                           <<"A"," ","B">>, <<"A",":","B">> } }

\* the `::<interfaceIndex>` segment: left out, or present with the given text
InterfaceIndexSegments ==
    { <<>> } \cup
    { Sep \o ix : ix \in { <<>>, <<"0">>, <<"1","0">>, <<"0","1","0">>, <<"0","8">>,
                           <<"1","0","2","3">>, <<"1","0","2","4">> } }

ResourceClassTokens ==
    { INSTR, <<"i","n","s","t","r">>, <<"S","O","C","K","E","T">> }

ResourceStrings ==
    { it \o bi \o Sep \o mi \o Sep \o mc \o sn \o ix \o Sep \o rc :
        it \in InterfaceTypeTokens, bi \in BoardIndexTokens,
        mi \in ManufacturerIDTokens, mc \in ModelCodeTokens,
        sn \in SerialSegments, ix \in InterfaceIndexSegments,
        rc \in ResourceClassTokens }

----------------------------------------------------------------------------
(* A call of parseVisaResource                                              *)

InitParse ==
    /\ pc = "start"
    /\ resourceString \in ResourceStrings
    /\ visa = NilPtr
    /\ err = nil
    /\ termchar = 0
    /\ calls = <<>>
    /\ dev = NilPtr
    /\ ret = NilPtr
    /\ devs = <<>>
    /\ idx = 0
    /\ result = <<>>
    /\ open = {}
    /\ released = <<>>

ParseCall ==
    /\ pc = "start"
    /\ LET r == parseVisaResource(resourceString)
       IN /\ visa' = r.visa
          /\ err' = r.err
    /\ pc' = "returned"
    /\ UNCHANGED <<resourceString, termchar, calls, dev, ret, devs, idx, result, open, released>>

NextParse == ParseCall

SpecParse == InitParse /\ [][NextParse]_vars


----------------------------------------------------------------------------
(* OpenResource, lines 157-171                                              *)

ErrNotFound == "usbtmc: device not found"

TermChars == {10, 13}

\* the lookup with manufacturer ID and model code exchanged
LookupArgsSwapped(v) == <<v.modelCode, v.manufacturerID, v.serialNumber>>

\* the arguments of usbtmc.NewDevice at line 163
LookupArgs(v) == <<v.manufacturerID, v.modelCode, v.serialNumber>>

InitOpen ==
    /\ pc = "start"
    /\ resourceString \in ResourceStrings
    /\ termchar \in TermChars
    /\ visa = NilPtr
    /\ err = nil
    /\ calls = <<>>
    /\ dev = NilPtr
    /\ ret = NilPtr
    /\ devs = <<>>
    /\ idx = 0
    /\ result = <<>>
    /\ open = {}
    /\ released = <<>>

\* lines 158-161
OpenParse ==
    /\ pc = "start"
    /\ LET r == parseVisaResource(resourceString)
       IN /\ visa' = r.visa
          /\ err' = r.err
          /\ calls' = Append(calls, [fn |-> "parseVisaResource",
                                     args |-> <<resourceString>>, err |-> r.err])
          /\ IF r.err # nil
             THEN /\ ret' = [handle |-> NilPtr, err |-> r.err]
                  /\ pc' = "returned"
             ELSE /\ ret' = ret
                  /\ pc' = "lookup"
    /\ UNCHANGED <<resourceString, termchar, dev, devs, idx, result, open, released>>

\* lines 163-167; whether a matching device is attached is the collaborator's answer
OpenLookup ==
    /\ pc = "lookup"
    /\ \E found \in BOOLEAN :
         LET e == IF found THEN nil ELSE ErrNotFound
         IN /\ calls' = Append(calls, [fn |-> "usbtmc.NewDevice",
                                       args |-> LookupArgs(visa), err |-> e])
            /\ err' = e
            /\ IF found
               THEN /\ dev' = [isNil |-> FALSE, id |-> LookupArgs(visa)]
                    /\ ret' = ret
                    /\ pc' = "construct"
               ELSE /\ dev' = NilPtr
                    /\ ret' = [handle |-> NilPtr, err |-> e]
                    /\ pc' = "returned"
    /\ UNCHANGED <<resourceString, visa, termchar, devs, idx, result, open, released>>

\* line 169
OpenConstruct ==
    /\ pc = "construct"
    /\ calls' = Append(calls, [fn |-> "usbtmc.NewUsbTmc",
                               args |-> <<dev, termchar>>, err |-> nil])
    /\ ret' = [handle |-> [isNil |-> FALSE, dev |-> dev, termchar |-> termchar],
               err |-> nil]
    /\ pc' = "returned"
    /\ UNCHANGED <<resourceString, visa, err, termchar, dev, devs, idx, result,
                   open, released>>

NextOpen == OpenParse \/ OpenLookup \/ OpenConstruct

SpecOpen == InitOpen /\ [][NextOpen]_vars


----------------------------------------------------------------------------
(* ListResources, lines 110-155                                             *)

MaxDevs == 2

HexDigitChars == DigitChars \o <<"a","b","c","d","e","f">>

RECURSIVE FormatUint(_, _)
FormatUint(n, base) ==
    IF n < base THEN <<HexDigitChars[n + 1]>>
    ELSE FormatUint(n \div base, base) \o <<HexDigitChars[(n % base) + 1]>>

\* gousb.ID rendered by %s: four lower-case hexadecimal digits, zero padded
IDString(id) ==
    LET h == FormatUint(id, 16)
    IN [i \in 1..(IF Len(h) < 4 THEN 4 - Len(h) ELSE 0) |-> "0"] \o h

\* an int rendered by %d
FormatInt(n) == IF n < 0 THEN <<"-">> \o FormatUint(-n, 10) ELSE FormatUint(n, 10)

\* fmt.Sprintf("USB0::0x%s::0x%s::%s::%d::INSTR", ...) at line 147
Identifier(vendor, product, sn, number) ==
    <<"U","S","B","0">> \o Sep \o <<"0","x">> \o IDString(vendor) \o Sep \o
    <<"0","x">> \o IDString(product) \o Sep \o sn \o Sep \o FormatInt(number) \o
    Sep \o INSTR

\* usbtmc.CheckTMC(alt) at line 144
CheckTMC(alt) == alt.tmc

\* attached devices: descriptor, serial number string, the first read that
\* fails (if any) and the interfaces of the active configuration
DeviceIdentities ==
    { [Vendor |-> 4660, Product |-> 22136, serial |-> <<"S","N","1">>],
      [Vendor |-> 1, Product |-> 65535, serial |-> <<>>],
      [Vendor |-> 2391, Product |-> 6023, serial |-> <<"A"," ","B">>],
      [Vendor |-> 10893, Product |-> 11, serial |-> <<"A",":","B">>] }

ReadFailures == { "none", "SerialNumber", "ActiveConfigNum", "Config" }

ConfigSamples ==
    { << [Number |-> 0, AltSettings |-> << [tmc |-> FALSE] >>] >>,
      << [Number |-> 0, AltSettings |-> << [tmc |-> TRUE], [tmc |-> TRUE] >>],
         [Number |-> 1, AltSettings |-> << [tmc |-> FALSE], [tmc |-> TRUE] >>] >>,
      << [Number |-> 10, AltSettings |-> << [tmc |-> TRUE] >>] >> }

DeviceSamples ==
    { [Desc |-> [Vendor |-> id.Vendor, Product |-> id.Product], serial |-> id.serial,
       fails |-> f, Interfaces |-> c] :
        id \in DeviceIdentities, f \in ReadFailures, c \in ConfigSamples }

Populations == UNION { [1..n -> DeviceSamples] : n \in 0..MaxDevs }

CtxHandle == [kind |-> "context", n |-> 0]
DevHandle(k) == [kind |-> "device", n |-> k]
CfgHandle(k) == [kind |-> "config", n |-> k]

RECURSIVE Flatten(_)
Flatten(seqs) == IF seqs = <<>> THEN <<>> ELSE Head(seqs) \o Flatten(Tail(seqs))

\* lines 143-149 with a break after the first match
InterfaceEntriesFirstMatch(d, ifDesc) ==
    IF \E a \in DOMAIN ifDesc.AltSettings : CheckTMC(ifDesc.AltSettings[a])
    THEN << Identifier(d.Desc.Vendor, d.Desc.Product, d.serial, ifDesc.Number) >>
    ELSE <<>>

\* lines 143-149: one identifier per alternate setting CheckTMC accepts
InterfaceEntries(d, ifDesc) ==
    LET tmc == SelectSeq(ifDesc.AltSettings, CheckTMC)
    IN [j \in 1..Len(tmc) |->
          Identifier(d.Desc.Vendor, d.Desc.Product, d.serial, ifDesc.Number)]

\* lines 142-150
DeviceEntries(d) ==
    Flatten([i \in 1..Len(d.Interfaces) |-> InterfaceEntries(d, d.Interfaces[i])])

InitList ==
    /\ pc = "start"
    /\ devs \in Populations
    /\ idx = 0
    /\ result = <<>>
    /\ open = {}
    /\ released = <<>>
    /\ resourceString = <<>>
    /\ visa = NilPtr
    /\ err = nil
    /\ termchar = 0
    /\ calls = <<>>
    /\ dev = NilPtr
    /\ ret = NilPtr

\* lines 111-125: the context and every device are opened, their Close deferred
ListOpen ==
    /\ pc = "start"
    /\ open' = {CtxHandle} \cup { DevHandle(k) : k \in 1..Len(devs) }
    /\ result' = <<>>
    /\ idx' = 1
    /\ pc' = "loop"
    /\ UNCHANGED <<resourceString, visa, err, termchar, calls, dev, ret, devs, released>>

\* lines 127-152: one iteration of the loop over devs
ListDevice ==
    /\ pc = "loop"
    /\ idx <= Len(devs)
    /\ LET d == devs[idx]
       IN IF d.fails = "SerialNumber" THEN UNCHANGED <<result, open>>
          ELSE IF d.fails = "ActiveConfigNum" THEN UNCHANGED <<result, open>>
          ELSE IF d.fails = "Config" THEN UNCHANGED <<result, open>>
          ELSE /\ open' = open \cup {CfgHandle(idx)}
               /\ result' = result \o DeviceEntries(d)
    /\ idx' = idx + 1
    /\ UNCHANGED <<pc, resourceString, visa, err, termchar, calls, dev, ret, devs,
                   released>>

\* line 154 and the deferred calls of lines 124 and 116, last deferred first
ListReturn ==
    /\ pc = "loop"
    /\ idx > Len(devs)
    /\ released' = released \o [j \in 1..Len(devs) |-> DevHandle(Len(devs) + 1 - j)]
                            \o <<CtxHandle>>
    /\ open' = (open \ { DevHandle(k) : k \in 1..Len(devs) }) \ {CtxHandle}
    /\ pc' = "returned"
    /\ UNCHANGED <<resourceString, visa, err, termchar, calls, dev, ret, devs, idx,
                   result>>

NextList == ListOpen \/ ListDevice \/ ListReturn

SpecList == InitList /\ [][NextList]_vars


----------------------------------------------------------------------------
(* Properties of parseVisaResource, checked under SpecParse                 *)

Captures == FindStringSubmatch(resourceString)

RECURSIVE DecimalValue(_)
DecimalValue(s) ==
    IF s = <<>> THEN 0
    ELSE 10 * DecimalValue(Sub(s, 1, Len(s))) + (IndexOf(s[Len(s)], DigitChars) - 1)

\* a numeric capture that is empty or that the field's conversion accepts
EarlierFieldsParse(mm) ==
    /\ mm.boardIndex = <<>> \/ ParseUint(mm.boardIndex, 0, 16).err = nil
    /\ ParseUint(mm.manufacturerID, 0, 16).err = nil
    /\ ParseUint(mm.modelCode, 0, 16).err = nil

\* the identifier with and without its `::<serialNumber>` segment
WithSerial(mm) ==
    mm.interfaceType \o mm.boardIndex \o Sep \o mm.manufacturerID \o Sep \o
    mm.modelCode \o Sep \o mm.serialNumber \o Sep \o mm.interfaceIndex \o Sep \o
    mm.resourceClass

WithoutSerial(mm) ==
    mm.interfaceType \o mm.boardIndex \o Sep \o mm.manufacturerID \o Sep \o
    mm.modelCode \o Sep \o mm.interfaceIndex \o Sep \o mm.resourceClass

\* C1: a text that does not match the grammar as a whole fails with an error
\* kind of its own, distinct from the kind reported for a grammar-matching
\* text whose interface type is not USB.
C1_MalformedHasOwnErrorKind ==
    (pc = "returned" /\ ~Captures.matched) => (err # nil /\ err # ErrInterfaceType)

\* C2: parseVisaResource returns either an identifier with interfaceType USB
\* and resourceClass INSTR and no error, or an error and no identifier at all.
C2_NoIdentifierWithError ==
    pc = "returned" =>
        \/ (err = nil /\ visa # NilPtr /\ visa.interfaceType = USB
                      /\ visa.resourceClass = INSTR)
        \/ (err # nil /\ visa = NilPtr)

\* C3 as stated: every identifier whose resource class is not INSTR (compared
\* case-insensitively) fails with the resource class error, whatever its
\* other fields contain.
C3_AnyNonInstrGivesResourceClassError ==
    (pc = "returned" /\ Captures.matched /\ ToUpper(Captures.resourceClass) # INSTR)
        => err = ErrResourceClass

\* C3 amended: an identifier whose interface type is USB and whose board
\* index, manufacturer ID, model code and interface index are accepted fails
\* with the resource class error when its resource class is not INSTR.
C3_NonInstrAfterEarlierChecks ==
    (/\ pc = "returned"
     /\ Captures.matched
     /\ ToUpper(Captures.interfaceType) = USB
     /\ EarlierFieldsParse(Captures)
     /\ Captures.interfaceIndex = <<>> \/ ParseUint(Captures.interfaceIndex, 0, 10).err = nil
     /\ ToUpper(Captures.resourceClass) # INSTR)
        => err = ErrResourceClass

C3_Witness ==
    /\ pc = "returned"
    /\ Captures.matched
    /\ Captures.resourceClass = <<"S","O","C","K","E","T">>
    /\ Captures.interfaceIndex = <<"1","0">>
    /\ Captures.serialNumber # <<>>
    /\ err = ErrResourceClass

\* C4: in a USB/INSTR identifier whose earlier fields are accepted, a
\* non-empty interface index is read as a decimal number (leading zeros
\* included) when its value is in range, an empty one gives -1, and only an
\* out-of-range one gives the interface index error.
C4_InterfaceIndexIsDecimal ==
    (/\ pc = "returned"
     /\ Captures.matched
     /\ ToUpper(Captures.interfaceType) = USB
     /\ ToUpper(Captures.resourceClass) = INSTR
     /\ EarlierFieldsParse(Captures))
        => IF Captures.interfaceIndex = <<>>
           THEN err = nil /\ visa.interfaceIndex = -1
           ELSE IF DecimalValue(Captures.interfaceIndex) <= 2^10 - 1
           THEN err = nil /\ visa.interfaceIndex = DecimalValue(Captures.interfaceIndex)
           ELSE err = ErrInterfaceIndex

\* C5: when an identifier with a serial number parses, the identifier without
\* its `::<serialNumber>` segment parses too, with an empty serial number and
\* every other field the same.
C5_SerialSegmentIsOptional ==
    (pc = "returned" /\ err = nil /\ visa.serialNumber # <<>>)
        => /\ WithSerial(Captures) = resourceString
           /\ LET r == parseVisaResource(WithoutSerial(Captures))
              IN /\ r.err = nil
                 /\ r.visa.serialNumber = <<>>
                 /\ r.visa.interfaceType = visa.interfaceType
                 /\ r.visa.boardIndex = visa.boardIndex
                 /\ r.visa.manufacturerID = visa.manufacturerID
                 /\ r.visa.modelCode = visa.modelCode
                 /\ r.visa.interfaceIndex = visa.interfaceIndex
                 /\ r.visa.resourceClass = visa.resourceClass

C5_Witness ==
    /\ pc = "returned"
    /\ err = nil
    /\ visa.serialNumber = <<"1","2">>
    /\ visa.interfaceIndex = 10
    /\ visa.boardIndex = 0
    /\ parseVisaResource(WithoutSerial(Captures)).visa.interfaceIndex = 10

----------------------------------------------------------------------------
(* Properties of ListResources, checked under SpecList                      *)

\* positions <<device, interface, alternate setting>> of the alternate
\* settings CheckTMC accepts on devices whose reads all succeeded
InstrumentSettings ==
    UNION { UNION { { <<k, i, a>> : a \in { b \in DOMAIN devs[k].Interfaces[i].AltSettings :
                                              devs[k].Interfaces[i].AltSettings[b].tmc } } :
                    i \in DOMAIN devs[k].Interfaces } :
            k \in { j \in DOMAIN devs : devs[j].fails = "none" } }

Before(u, t) ==
    \/ u[1] < t[1]
    \/ u[1] = t[1] /\ u[2] < t[2]
    \/ u[1] = t[1] /\ u[2] = t[2] /\ u[3] < t[3]

Rank(t) == Cardinality({ u \in InstrumentSettings : Before(u, t) }) + 1

Acquired ==
    {CtxHandle} \cup { DevHandle(k) : k \in DOMAIN devs }
                \cup { CfgHandle(k) : k \in { j \in DOMAIN devs : devs[j].fails = "none" } }

\* C6: when ListResources returns, the context, every opened device and
\* every configuration obtained from a device have been released, and the
\* devices are released before the context.
C6_EveryHandleReleased ==
    pc = "returned" =>
        /\ open = {}
        /\ Acquired \subseteq Range(released)
        /\ \A i, j \in DOMAIN released :
              (released[i].kind = "device" /\ released[j].kind = "context") => i < j

\* C7: the returned list holds exactly one identifier per instrument-capable
\* alternate setting of each device whose reads all succeeded, in device,
\* interface, alternate-setting order; other devices contribute nothing.
C7_OneIdentifierPerInstrumentSetting ==
    pc = "returned" =>
        /\ Len(result) = Cardinality(InstrumentSettings)
        /\ \A t \in InstrumentSettings :
              result[Rank(t)] =
                  Identifier(devs[t[1]].Desc.Vendor, devs[t[1]].Desc.Product,
                             devs[t[1]].serial, devs[t[1]].Interfaces[t[2]].Number)

C7_Witness ==
    /\ pc = "returned"
    /\ Len(devs) = 2
    /\ devs[1].fails = "Config"
    /\ devs[2].fails = "none"
    /\ Len(devs[2].Interfaces) = 2
    /\ Len(result) = 3
    /\ result[2] # result[3]

\* C8: every identifier ListResources renders parses back, without error, to
\* board index 0 and the vendor ID, product ID, serial number and interface
\* number it was rendered from.
C8_RenderedIdentifiersParseBack ==
    pc = "returned" =>
        \A t \in InstrumentSettings :
            LET d == devs[t[1]]
                r == parseVisaResource(result[Rank(t)])
            IN /\ r.err = nil
               /\ r.visa.boardIndex = 0
               /\ r.visa.manufacturerID = d.Desc.Vendor
               /\ r.visa.modelCode = d.Desc.Product
               /\ r.visa.serialNumber = d.serial
               /\ r.visa.interfaceIndex = d.Interfaces[t[2]].Number

----------------------------------------------------------------------------
(* Properties of OpenResource, checked under SpecOpen                       *)

CallOrder == <<"parseVisaResource", "usbtmc.NewDevice", "usbtmc.NewUsbTmc">>

\* C9: OpenResource calls parse, lookup and handle construction in that
\* order and stops at the first failure, returning that error unchanged with
\* a nil handle; the lookup gets exactly the parsed manufacturerID, modelCode
\* and serialNumber; a handle is returned exactly when parse and lookup
\* both succeed.
C9_ParseLookupConstructInOrder ==
    /\ Len(calls) <= 3
    /\ \A i \in DOMAIN calls : calls[i].fn = CallOrder[i]
    /\ \A i \in DOMAIN calls : i > 1 => calls[i - 1].err = nil
    /\ Len(calls) >= 2 =>
          calls[2].args = <<visa.manufacturerID, visa.modelCode, visa.serialNumber>>
    /\ pc = "returned" =>
          /\ Len(calls) >= 1
          /\ calls[1].args = <<resourceString>>
          /\ calls[Len(calls)].err # nil =>
                ret = [handle |-> NilPtr, err |-> calls[Len(calls)].err]
          /\ calls[Len(calls)].err = nil =>
                (Len(calls) = 3 /\ ret.handle # NilPtr /\ ret.err = nil)
          /\ (ret.handle # NilPtr /\ ret.err = nil) <=>
                (Len(calls) = 3 /\ calls[1].err = nil /\ calls[2].err = nil)

C9_Witness ==
    /\ pc = "returned"
    /\ Len(calls) = 3
    /\ ret.err = nil
    /\ ret.handle # NilPtr
    /\ visa.boardIndex # visa.manufacturerID
    /\ visa.manufacturerID # visa.modelCode
    /\ visa.serialNumber # <<>>

\* C10: after a successful parse manufacturerID and modelCode are in
\* 0..65535, boardIndex is -1 or in 0..65535 and interfaceIndex is -1 or in
\* 0..1023, so the device lookup never gets -1 as an ID.
C10_ParsedFieldsInRange ==
    /\ (Len(calls) >= 1 /\ calls[1].err = nil) =>
          /\ visa.manufacturerID \in 0..(2^16 - 1)
          /\ visa.modelCode \in 0..(2^16 - 1)
          /\ visa.boardIndex \in {-1} \cup 0..(2^16 - 1)
          /\ visa.interfaceIndex \in {-1} \cup 0..(2^10 - 1)
    /\ \A i \in DOMAIN calls :
          calls[i].fn = "usbtmc.NewDevice" =>
              /\ calls[i].args[1] \in 0..(2^16 - 1)
              /\ calls[i].args[2] \in 0..(2^16 - 1)

C10_Witness ==
    /\ pc = "returned"
    /\ Len(calls) = 3
    /\ visa.manufacturerID = 2^16 - 1
    /\ visa.modelCode = 2^16 - 1
    /\ visa.interfaceIndex = 2^10 - 1
    /\ visa.boardIndex = -1


====
